---- MODULE Spec2Model ----
(***************************************************************************)
(* SecureSteg: the pointer-chain embedding engine.                         *)
(*                                                                         *)
(* StegEncoder.encode hides a ciphertext msg_e in an RGBA pixel grid: a     *)
(* PRNG seeded with the key picks the candidate pixels S, the ciphertext   *)
(* is written backwards as a chain of pixels (R = byte, G,B = pointer to   *)
(* the next chain position through a keyed hash), and the key is packaged  *)
(* as a hex string.  StegDecoder.decode parses the key, rebuilds S and     *)
(* walks the chain.                                                        *)
(*                                                                         *)
(* Scaling.  The source works with hex digits of radix 16, bytes of two    *)
(* hex digits and pointers of two bytes (Q = 16^4).  The model keeps this  *)
(* structure with the radix HexBase as its bound: a byte is two digits     *)
(* (ByteRange = HexBase^2 values) and a pointer two bytes                  *)
(* (Q = ByteRange^2), so a key field of FIELD_HEX_LEN = 4 digits holds     *)
(* exactly the values below Q, as in the source.                           *)
(*                                                                         *)
(* Library code.  HmacSHA256 is modelled as a keyed family Mac16 of        *)
(* functions on pointer values, the isaac PRNG as a full-period linear     *)
(* congruential stream held in the module-level variable isaac, and        *)
(* AES as the identity on the ciphertext the encoder is given.             *)
(***************************************************************************)
EXTENDS Integers, Sequences, FiniteSets, TLC

(* ------------------------------ bounds --------------------------------- *)
\* radix of a hex digit (16 in the source)
HexBase == 2
\* largest pixel count width * height of a cover image
MaxPixels == 4
\* number of master keys the constructor can draw
NumKeys == 3
\* number of cover patterns
NumCovers == 2
\* number of ciphertext patterns
NumMsgs == 2
\* hex digits of the master key (64 in the source)
KeyHexLen == 2

(* ------------------------- program constants --------------------------- *)
POINTER_CHANNEL_COUNT == 2
STEG_CHANNEL_COUNT == 4
FIELD_HEX_LEN == 4
RED == 1
GREEN == 2
BLUE == 3
ALPHA == 4
\* parseInt of a string without a leading digit
NaN == -1
\* String.prototype.trim removes this character; no hex digit
SPACE == -2

ByteRange == HexBase * HexBase
DEFAULT_TOTAL_POINTERS == ByteRange * ByteRange
Q == DEFAULT_TOTAL_POINTERS

Min(a, b) == IF a < b THEN a ELSE b
Max(a, b) == IF a > b THEN a ELSE b
Abs(a) == IF a < 0 THEN -a ELSE a

(* ----------------------------- hex strings ----------------------------- *)
\* Number.prototype.toString(16): the digits of n, most significant first
RECURSIVE toString16(_)
toString16(n) ==
    IF n < HexBase THEN <<n>> ELSE toString16(n \div HexBase) \o <<n % HexBase>>

\* a padding that leaves the string as it is
padStartNone(s, len) == s

RECURSIVE padStart(_, _)
padStart(s, len) == IF Len(s) >= len THEN s ELSE padStart(<<0>> \o s, len)

\* parseInt(s, 16): the value of the longest prefix of hex digits, NaN if none
RECURSIVE parseDigits(_, _, _)
parseDigits(s, k, acc) ==
    IF k > Len(s) \/ s[k] < 0 \/ s[k] >= HexBase THEN acc
    ELSE parseDigits(s, k + 1, acc * HexBase + s[k])

parseInt(s) ==
    IF s = <<>> \/ s[1] < 0 \/ s[1] >= HexBase THEN NaN ELSE parseDigits(s, 1, 0)

RECURSIVE trimStart(_)
trimStart(s) == IF s # <<>> /\ s[1] = SPACE THEN trimStart(Tail(s)) ELSE s

RECURSIVE trimEnd(_)
trimEnd(s) ==
    IF s # <<>> /\ s[Len(s)] = SPACE THEN trimEnd(SubSeq(s, 1, Len(s) - 1)) ELSE s

trim(s) == trimEnd(trimStart(s))

\* String.prototype.slice(from, to) with 0-based, end-exclusive indices
slice(s, from, to) == SubSeq(s, from + 1, Min(to, Len(s)))

\* WordArray.toString(): the key as exactly KeyHexLen hex digits
keyToString(K) == padStart(toString16(K), KeyHexLen)

\* Hex.parse
hexParse(s) == parseInt(s)

(* ------------------------------ key format ----------------------------- *)
packageKey(keyObj) ==
    keyToString(keyObj.key)
        \o padStart(toString16(keyObj.aliasCount), FIELD_HEX_LEN)
        \o padStart(toString16(keyObj.msgLength), FIELD_HEX_LEN)
        \o toString16(keyObj.firstPixelIndex)

PackedMinLen == KeyHexLen + 2 * FIELD_HEX_LEN

\* a length check on the string as given
packedTooShortUntrimmed(packed) == Len(packed) < PackedMinLen

\* the RangeError guard of unpackageKey
packedTooShort(packed) == Len(trim(packed)) < PackedMinLen

unpackageKey(packed) ==
    LET s == trim(packed)
        keyHex == slice(s, 0, KeyHexLen)
        aliasHex == slice(s, KeyHexLen, KeyHexLen + FIELD_HEX_LEN)
        lenHex == slice(s, KeyHexLen + FIELD_HEX_LEN, PackedMinLen)
        firstHex == slice(s, PackedMinLen, Len(s))
    IN [key |-> hexParse(keyHex),
        firstPixelIndex |-> parseInt(firstHex),
        aliasCount |-> parseInt(aliasHex),
        msgLength |-> parseInt(lenHex)]

(* ------------------------ keyed hash and PRNG -------------------------- *)
\* the pointer value (G << 8) | B of two pointer bytes
pointerValue(bytes) == bytes[1] * ByteRange + bytes[2]

\* first 16 bits of HmacSHA256(p, K): a keyed function of the pointer value
Mac16(K, p) == (K * p * p + p + K) % Q

next_pixel_idx(K, p, S_len) == Mac16(K, pointerValue(p)) % S_len

\* isaac.seed(string): the stream is a function of the seed string alone
isaacSeed(keyString) == (7 * parseInt(keyString) + 3) % Q

\* one step of the stream; isaac.random() is the new state divided by Q
isaacNext(state) == ((ByteRange + 1) * state + 1) % Q

\* Math.floor(isaac.random() * pixelCount) for the stream state after the draw
randomIndex(state, pixelCount) == (state * pixelCount) \div Q

\* a seeding that mixes the string into the state the generator is in
reseedMixed(state, keyString) == (state + isaacSeed(keyString)) % Q

\* isaac.seed(string) on the module-level generator in the given state: the
\* generator is reset, whatever earlier calls left in it
reseed(state, keyString) == isaacSeed(keyString)

(* ------------------------------- pixels -------------------------------- *)
\* new StegPointer(from): from a pixel, the channels after the first
StegPointerFromRed(from) ==
    IF Len(from) > POINTER_CHANNEL_COUNT
    THEN SubSeq(from, 1, POINTER_CHANNEL_COUNT)
    ELSE from

StegPointer(from) ==
    IF Len(from) > POINTER_CHANNEL_COUNT
    THEN SubSeq(from, 2, 1 + POINTER_CHANNEL_COUNT)
    ELSE from

\* new StegPixel(pixel, index)
StegPixel(pixel, index) ==
    [bytes |-> pixel, originalBytes |-> pixel, index |-> index,
     pointer |-> StegPointer(pixel)]

setChannel(px, channel, value) ==
    LET b == [px.bytes EXCEPT ![channel] = value]
    IN [px EXCEPT !.bytes = b, !.pointer = StegPointer(b)]

\* setPointer with the loop stopping after the first pointer channel
setPointerFirstOnly(px, pointer) ==
    [px EXCEPT !.bytes = [px.bytes EXCEPT ![GREEN] = pointer[1]],
               !.pointer = pointer]

setPointer(px, pointer) ==
    [px EXCEPT !.bytes = [px.bytes EXCEPT ![GREEN] = pointer[1], ![BLUE] = pointer[2]],
               !.pointer = pointer]

\* a test of the payload channel alone
modifiedRedOnly(px) == px.bytes[RED] # px.originalBytes[RED]

modified(px) == \E c \in 1..STEG_CHANNEL_COUNT : px.bytes[c] # px.originalBytes[c]

\* the square of StegPixel.similarity: Math.sqrt is strictly increasing on these
\* sums, so every comparison of distances is a comparison of the squares
RECURSIVE sumSq(_, _, _)
sumSq(a, b, c) ==
    IF c > Len(a) THEN 0 ELSE (a[c] - b[c]) * (a[c] - b[c]) + sumSq(a, b, c + 1)

similarity(px, other) == sumSq(px.bytes, other.bytes, 1)

\* StegImage.getPixelAt / setPixelAt on the grid of pixels (0-based index)
getPixelAtFirst(grid, index) == StegPixel(grid[1], index)

getPixelAt(grid, index) == StegPixel(grid[index + 1], index)

\* a write that stores the colour channels and forces the pixel opaque
setPixelAtOpaque(grid, px) ==
    [grid EXCEPT ![px.index + 1] = [px.bytes EXCEPT ![ALPHA] = ByteRange - 1]]

setPixelAt(grid, px) == [grid EXCEPT ![px.index + 1] = px.bytes]

RECURSIVE setPixelsFrom(_, _, _)
setPixelsFrom(grid, pixels, k) ==
    IF k > Len(pixels) THEN grid
    ELSE setPixelsFrom(setPixelAt(grid, pixels[k]), pixels, k + 1)

\* Array.prototype.findIndex(p => p.index === index): 0-based, -1 if absent
RECURSIVE findIndexFrom(_, _, _)
findIndexFrom(pixels, index, k) ==
    IF k > Len(pixels) THEN -1
    ELSE IF pixels[k].index = index THEN k - 1
    ELSE findIndexFrom(pixels, index, k + 1)

findIndex(pixels, index) == findIndexFrom(pixels, index, 1)

SeqHas(s, x) == \E k \in 1..Len(s) : s[k] = x

\* Set.prototype.add on a set kept in insertion order
setAddDuplicate(s, x) == Append(s, x)

setAdd(s, x) == IF SeqHas(s, x) THEN s ELSE Append(s, x)

(* --------------------------- encoder search ---------------------------- *)
\* allPointers[p + 1] is the two-byte pointer of value p
allPointers ==
    [k \in 1..DEFAULT_TOTAL_POINTERS |->
        <<((k - 1) \div ByteRange) % ByteRange, (k - 1) % ByteRange>>]

SelectPixels(pixels, Test(_)) == SelectSeq(pixels, Test)

RemoveAt(s, k) == SubSeq(s, 1, k - 1) \o SubSeq(s, k + 1, Len(s))

redDistance(px, byte) == Abs(px.bytes[RED] - byte)

\* Array.prototype.sort with the comparator |a.R - byte| - |b.R - byte| (stable)
RECURSIVE sortByRed(_, _)
sortByRed(pixels, byte) ==
    IF pixels = <<>> THEN <<>>
    ELSE LET k == CHOOSE j \in 1..Len(pixels) :
                    /\ \A l \in 1..Len(pixels) :
                          redDistance(pixels[j], byte) <= redDistance(pixels[l], byte)
                    /\ \A l \in 1..(j - 1) :
                          redDistance(pixels[l], byte) > redDistance(pixels[j], byte)
         IN <<pixels[k]>> \o sortByRed(RemoveAt(pixels, k), byte)

exactMatchPixelsReversed(pixels, byte) ==
    LET exact == SelectSeq(pixels, LAMBDA px : px.bytes[RED] = byte)
    IN [k \in 1..Len(exact) |-> exact[Len(exact) + 1 - k]]

exactMatchPixels(pixels, byte) ==
    SelectSeq(pixels, LAMBDA px : px.bytes[RED] = byte)

\* the pixels whose R differs from the byte, left in the order of S
fallbackPixelsUnsorted(pixels, byte) ==
    SelectSeq(pixels, LAMBDA px : px.bytes[RED] # byte)

fallbackPixels(pixels, byte) ==
    sortByRed(SelectSeq(pixels, LAMBDA px : px.bytes[RED] # byte), byte)

candidatePixels(pixels, byte) ==
    exactMatchPixels(pixels, byte) \o fallbackPixels(pixels, byte)

possiblePreviousPointers(K, pos, S_len) ==
    SelectSeq(allPointers, LAMBDA p : next_pixel_idx(K, p, S_len) = pos)

\* bestPixel = null with bestPixelDistance = Infinity
NoBest == [found |-> FALSE, pixel |-> <<>>, distance |-> 0, pos |-> -1, perfect |-> FALSE]

\* the hypothetical pixel with the RED channel left as it is
modifiedPixelKeepRed(original, byte, possiblePtr) ==
    setPointer(StegPixel(original.bytes, original.index), possiblePtr)

\* the hypothetical pixel: RED set to the byte, pointer bytes set to the pointer
modifiedPixelOf(original, byte, possiblePtr) ==
    setPointer(setChannel(StegPixel(original.bytes, original.index), RED, byte),
               possiblePtr)

isPerfectMatch(original, byte, possiblePtr) ==
    original.bytes[RED] = byte /\ original.pointer = possiblePtr

\* a comparison that keeps the farther candidate
improvesReversed(distance, best) == ~best.found \/ distance > best.distance

\* modifiedPixelDistance < bestPixelDistance
improves(distance, best) == ~best.found \/ distance < best.distance

\* the loop over possiblePreviousPointers for one candidate pixel; every
\* iteration leaves a best pixel, and testing it makes the evaluation of the
\* update precede the next iteration
RECURSIVE pointerLoop(_, _, _, _, _, _)
pointerLoop(original, pos, byte, ptrs, j, best) ==
    IF j > Len(ptrs) THEN best
    ELSE IF isPerfectMatch(original, byte, ptrs[j])
    THEN [found |-> TRUE, pixel |-> original, distance |-> 0, pos |-> pos,
          perfect |-> TRUE]
    ELSE LET modifiedPixel == modifiedPixelOf(original, byte, ptrs[j])
             d == similarity(original, modifiedPixel)
             updated == IF improves(d, best)
                        THEN [found |-> TRUE, pixel |-> modifiedPixel, distance |-> d,
                              pos |-> pos, perfect |-> FALSE]
                        ELSE best
         IN IF updated.found
            THEN pointerLoop(original, pos, byte, ptrs, j + 1, updated)
            ELSE updated

\* the skip test without the look-up in usedPositions
skipCandidateUnfound(pos, used) == pos = -1

\* pos === -1 || usedPositions.has(pos)
skipCandidate(pos, used) == pos = -1 \/ SeqHas(used, pos)

\* the loop labelled outer over candidatePixels
RECURSIVE candidateLoop(_, _, _, _, _, _, _)
candidateLoop(cands, pixels, used, byte, ptrs, k, best) ==
    IF k > Len(cands) \/ best.perfect THEN best
    ELSE LET pixel == cands[k]
             pos == findIndex(pixels, pixel.index)
         IN IF skipCandidate(pos, used)
            THEN candidateLoop(cands, pixels, used, byte, ptrs, k + 1, best)
            ELSE candidateLoop(cands, pixels, used, byte, ptrs, k + 1,
                               pointerLoop(pixel, pos, byte, ptrs, 1, best))

\* one backward step: the best (pixel, position) for the byte, pointing at pos
bestPixelFor(K, pixels, used, byte, pos) ==
    candidateLoop(candidatePixels(pixels, byte), pixels, used, byte,
                  possiblePreviousPointers(K, pos, Len(pixels)), 1, NoBest)

\* Phase 2: the element with the smallest |R - byte|, the first among ties
lastPixelFirst(pixels, byte) == pixels[1]

lastPixelOf(pixels, byte) == sortByRed(pixels, byte)[1]

(* ------------------------------- inputs -------------------------------- *)
Keys == 0..(NumKeys - 1)

\* alias counts whose floor(Q / t) lies around the message lengths, and 1, 2, Q
AliasCounts == {Q \div n : n \in 1..(MaxPixels + 1)} \cup {1, 2}

\* cover pattern c of n pixels: pattern 0 has every channel at mid-range
coverPixel(c, k) ==
    IF c = 0
    THEN <<ByteRange \div 2, ByteRange \div 2, ByteRange \div 2, ByteRange \div 2>>
    ELSE <<(c * k) % ByteRange, (k \div 2 + c) % ByteRange,
           (3 * k + c) % ByteRange, (ByteRange - 1 + k) % ByteRange>>

coverOf(c, n) == [k \in 1..n |-> coverPixel(c, k - 1)]

\* ciphertext pattern m of length len
messageOf(m, len) == [k \in 1..len |-> (ByteRange \div 2 + m * (k - 1)) % ByteRange]

(* -------------------------------- state -------------------------------- *)
VARIABLES
    file,            \* the cover file: [loadable, width, height, data]
    isReady,         \* StegImage.isReady
    channels,        \* StegImage.channels as a sequence of pixels
    width, height,   \* StegImage.width, StegImage.height
    isaac,           \* state of the module-level PRNG
    key,             \* StegEncoder.key
    aliasCount,      \* StegEncoder.aliasCount
    msg_e,           \* the ciphertext aes_encrypt returns
    epc,             \* where encode() stands
    eErr,            \* the error encode() threw, "" if none
    effectiveAliasCount,
    targetCount,
    uniqueIndices,   \* the Set of image indices, in insertion order
    encodablePixels,
    encodedPixels,
    currentPos,
    usedPositions,   \* the Set of positions in S, in insertion order
    i,               \* index of the byte the chain loop encodes next
    stats,
    packagedKey,     \* the key encode() returns
    reports,         \* the calls of onProgress: [num, den, phase]
    dpc,             \* where the decoder stands
    dErr,
    dKey, dFirstPixelIndex, dAliasCount, dMsgLength, encodingPixelsCount,
    dUniqueIndices,
    decodablePixels,
    dMsg,            \* the bytes decode() extracted
    dCurrent,        \* currentPixel: <<pixel>>, or <<>> for undefined
    dI,
    dPacked,         \* the key string handed to new StegDecoder
    dIsReady,        \* isReady of the decoder's StegImage
    run,             \* 1 for the first StegEncoder, 2 for a second one on the same inputs
    first,           \* what the first encode() produced, <<>> until a second one starts
    interfered,      \* TRUE once another call has used the module-level PRNG
    cancelAt,        \* where encode() stood when the caller asked to cancel, "" if never
    probe            \* a pixel a pointer was written into, <<>> if none

imageVars == <<file, isReady, channels, width, height>>
encVars == <<key, aliasCount, msg_e, epc, eErr, effectiveAliasCount, targetCount,
             uniqueIndices, encodablePixels, encodedPixels, currentPos,
             usedPositions, i, stats, packagedKey, reports>>
decVars == <<dpc, dErr, dKey, dFirstPixelIndex, dAliasCount, dMsgLength,
             encodingPixelsCount, dUniqueIndices, decodablePixels, dMsg, dCurrent, dI>>
decInVars == <<dPacked, dIsReady>>
callVars == <<run, first, interfered, cancelAt, probe>>
vars == <<imageVars, isaac, encVars, decVars, decInVars, callVars>>

pixelCount == width * height

NoStats == [pixelsTotal |-> 0, pixelsEncoded |-> 0, pixelsModified |-> 0,
            channelsModified |-> 0]

\* new StegEncoder(image, message, aliasCount); no decoder exists yet
Init ==
    /\ \E n \in 1..MaxPixels, c \in 0..(NumCovers - 1), ok \in BOOLEAN :
          file = [loadable |-> ok, width |-> n, height |-> 1, data |-> coverOf(c, n)]
    /\ isReady = FALSE /\ channels = <<>> /\ width = 0 /\ height = 0
    /\ isaac = 0
    /\ key \in Keys
    /\ aliasCount \in AliasCounts
    /\ \E m \in 0..(NumMsgs - 1), len \in 1..(file.width * file.height + 1) :
          msg_e = messageOf(m, len)
    /\ epc = "new" /\ eErr = ""
    /\ effectiveAliasCount = 0 /\ targetCount = 0
    /\ uniqueIndices = <<>> /\ encodablePixels = <<>> /\ encodedPixels = <<>>
    /\ currentPos = -1 /\ usedPositions = <<>> /\ i = -1
    /\ stats = NoStats /\ packagedKey = <<>> /\ reports = <<>>
    /\ dpc = "none" /\ dErr = ""
    /\ dKey = 0 /\ dFirstPixelIndex = 0 /\ dAliasCount = 0 /\ dMsgLength = 0
    /\ encodingPixelsCount = 0
    /\ dUniqueIndices = <<>> /\ decodablePixels = <<>> /\ dMsg = <<>>
    /\ dCurrent = <<>> /\ dI = 0
    /\ dPacked = <<>> /\ dIsReady = FALSE
    /\ run = 1 /\ first = <<>> /\ interfered = FALSE
    /\ cancelAt = "" /\ probe = <<>>

(* ------------------------------- encoder ------------------------------- *)
\* report(p, phase): Math.max(0, Math.min(1, p)) of the fraction num / den
report(num, den, phase) ==
    LET hi == IF num > den THEN den ELSE num
    IN Append(reports, [num |-> IF hi < 0 THEN 0 ELSE hi, den |-> den, phase |-> phase])

\* StegEncoder.prepare, and the first report of encode
EncPrepare ==
    /\ epc = "new"
    /\ isReady' = file.loadable
    /\ IF file.loadable
       THEN /\ channels' = file.data /\ width' = file.width /\ height' = file.height
            /\ reports' = report(5, 100, "Encrypting message")
            /\ epc' = "encrypt" /\ eErr' = eErr
       ELSE /\ UNCHANGED <<channels, width, height, reports>>
            /\ epc' = "error" /\ eErr' = "image has not been initialized yet."
    /\ UNCHANGED <<file, isaac, key, aliasCount, msg_e, effectiveAliasCount,
                   targetCount, uniqueIndices, encodablePixels, encodedPixels,
                   currentPos, usedPositions, i, stats, packagedKey, decVars>>
    /\ UNCHANGED <<decInVars, callVars>>

\* effectiveAliasCount after "ensure we have enough encodable positions"
renegotiate(t, len) ==
    IF DEFAULT_TOTAL_POINTERS \div t < len
    THEN Max(1, DEFAULT_TOTAL_POINTERS \div len)
    ELSE t

\* the capacity test with >= for >
messageTooLongOrEqual(len, count) == len >= count

\* msg_e.length > pixelCount
messageTooLong(len, count) == len > count

\* encryption, alias renegotiation, seeding, and the capacity check
EncSeed ==
    /\ epc = "encrypt"
    /\ effectiveAliasCount' = renegotiate(aliasCount, Len(msg_e))
    /\ isaac' = reseed(isaac, keyToString(key))
    /\ IF messageTooLong(Len(msg_e), pixelCount)
       THEN /\ epc' = "error" /\ eErr' = "Message too long for this image"
            /\ UNCHANGED targetCount
       ELSE /\ targetCount' =
                 Min(DEFAULT_TOTAL_POINTERS \div effectiveAliasCount', pixelCount)
            /\ epc' = "gather" /\ eErr' = eErr
    /\ uniqueIndices' = <<>>
    /\ UNCHANGED <<imageVars, key, aliasCount, msg_e, encodablePixels, encodedPixels,
                   currentPos, usedPositions, i, stats, packagedKey, reports, decVars>>
    /\ UNCHANGED <<decInVars, callVars>>

\* one iteration of while (uniqueIndices.size < targetCount)
EncDraw ==
    /\ epc = "gather"
    /\ Len(uniqueIndices) < targetCount
    /\ isaac' = isaacNext(isaac)
    /\ uniqueIndices' = setAdd(uniqueIndices, randomIndex(isaac', pixelCount))
    /\ UNCHANGED <<imageVars, key, aliasCount, msg_e, epc, eErr, effectiveAliasCount,
                   targetCount, encodablePixels, encodedPixels, currentPos,
                   usedPositions, i, stats, packagedKey, reports, decVars>>
    /\ UNCHANGED <<decInVars, callVars>>

\* Array.from(uniqueIndices, idx => image.getPixelAt(idx))
pixelsOf(grid, indices) == [k \in 1..Len(indices) |-> getPixelAt(grid, indices[k])]

EncSelectPixels ==
    /\ epc = "gather"
    /\ ~(Len(uniqueIndices) < targetCount)
    /\ encodablePixels' = pixelsOf(channels, uniqueIndices)
    /\ encodedPixels' = <<>>
    /\ reports' = report(15, 100, "Selecting pixels")
    /\ epc' = "pointers"
    /\ UNCHANGED <<imageVars, isaac, key, aliasCount, msg_e, eErr,
                   effectiveAliasCount, targetCount, uniqueIndices, currentPos,
                   usedPositions, i, stats, packagedKey, decVars>>
    /\ UNCHANGED <<decInVars, callVars>>

\* allPointers is generated
EncPreparePointers ==
    /\ epc = "pointers"
    /\ reports' = report(20, 100, "Preparing pointers")
    /\ epc' = "last"
    /\ UNCHANGED <<imageVars, isaac, key, aliasCount, msg_e, eErr,
                   effectiveAliasCount, targetCount, uniqueIndices, encodablePixels,
                   encodedPixels, currentPos, usedPositions, i, stats, packagedKey,
                   decVars>>
    /\ UNCHANGED <<decInVars, callVars>>

\* a last-pixel step that stores the pixel in the grid as soon as it is chosen
EncLastPixelWritten ==
    /\ epc = "last"
    /\ LET byte == msg_e[Len(msg_e)]
           chosen == lastPixelOf(encodablePixels, byte)
           pos == findIndex(encodablePixels, chosen.index)
           currentPixel == setChannel(chosen, RED, byte)
       IN /\ encodablePixels' = [encodablePixels EXCEPT ![pos + 1] = currentPixel]
          /\ encodedPixels' = Append(encodedPixels, currentPixel)
          /\ currentPos' = pos
          /\ usedPositions' = <<pos>>
          /\ channels' = setPixelAt(channels, currentPixel)
    /\ i' = Len(msg_e) - 2
    /\ epc' = "chain"
    /\ UNCHANGED <<file, isReady, width, height, isaac, key, aliasCount, msg_e, eErr,
                   effectiveAliasCount, targetCount, uniqueIndices, stats,
                   packagedKey, reports, decVars>>
    /\ UNCHANGED <<decInVars, callVars>>

\* "set the last pixel": the object chosen is an element of encodablePixels,
\* so setChannel changes that element
EncLastPixel ==
    /\ epc = "last"
    /\ LET byte == msg_e[Len(msg_e)]
           chosen == lastPixelOf(encodablePixels, byte)
           pos == findIndex(encodablePixels, chosen.index)
           currentPixel == setChannel(chosen, RED, byte)
       IN /\ encodablePixels' = [encodablePixels EXCEPT ![pos + 1] = currentPixel]
          /\ encodedPixels' = Append(encodedPixels, currentPixel)
          /\ currentPos' = pos
          /\ usedPositions' = <<pos>>
    /\ i' = Len(msg_e) - 2
    /\ epc' = "chain"
    /\ UNCHANGED <<imageVars, isaac, key, aliasCount, msg_e, eErr,
                   effectiveAliasCount, targetCount, uniqueIndices, stats,
                   packagedKey, reports, decVars>>
    /\ UNCHANGED <<decInVars, callVars>>

\* a count of the loop's iterations that is one too small
totalInnerShort == Max(1, Len(msg_e) - 2)

totalInner == Max(1, Len(msg_e) - 1)

\* one iteration of the chain loop, for the byte msg_e[i]
EncStep ==
    /\ epc = "chain"
    /\ i >= 0
    /\ \E best \in {bestPixelFor(key, encodablePixels, usedPositions, msg_e[i + 1],
                                   currentPos)} :
       LET processed == (Len(msg_e) - 2) - i + 1
       IN IF ~best.found
          THEN /\ epc' = "error"
               /\ eErr' = "Invariant violated: bestPixel should have been selected"
               /\ UNCHANGED <<encodedPixels, currentPos, usedPositions, i, reports>>
          ELSE /\ encodedPixels' = Append(encodedPixels, best.pixel)
               /\ currentPos' = best.pos
               /\ usedPositions' = setAdd(usedPositions, best.pos)
               /\ reports' = report(20 * totalInner + 75 * processed, 100 * totalInner,
                                    "Encoding bytes")
               /\ i' = i - 1
               /\ UNCHANGED <<epc, eErr>>
    /\ UNCHANGED <<imageVars, isaac, key, aliasCount, msg_e, effectiveAliasCount,
                   targetCount, uniqueIndices, encodablePixels, stats, packagedKey,
                   decVars>>
    /\ UNCHANGED <<decInVars, callVars>>

EncLoopExit ==
    /\ epc = "chain"
    /\ i < 0
    /\ reports' = report(96, 100, "Writing pixels to image")
    /\ epc' = "write"
    /\ UNCHANGED <<imageVars, isaac, key, aliasCount, msg_e, eErr,
                   effectiveAliasCount, targetCount, uniqueIndices, encodablePixels,
                   encodedPixels, currentPos, usedPositions, i, stats, packagedKey,
                   decVars>>
    /\ UNCHANGED <<decInVars, callVars>>

\* computeEncodeStats: the pixels deduplicated by index, the last write winning
RECURSIVE lastByIndex(_, _)
lastByIndex(pixels, k) ==
    IF k > Len(pixels) THEN <<>>
    ELSE IF \E l \in (k + 1)..Len(pixels) : pixels[l].index = pixels[k].index
    THEN lastByIndex(pixels, k + 1)
    ELSE <<pixels[k]>> \o lastByIndex(pixels, k + 1)

RECURSIVE countModified(_, _)
countModified(pixels, k) ==
    IF k > Len(pixels) THEN 0
    ELSE (IF modified(pixels[k]) THEN 1 ELSE 0) + countModified(pixels, k + 1)

channelDiffs(px) ==
    Cardinality({c \in 1..Len(px.bytes) : px.originalBytes[c] # px.bytes[c]})

RECURSIVE countChannels(_, _)
countChannels(pixels, k) ==
    IF k > Len(pixels) THEN 0
    ELSE channelDiffs(pixels[k]) + countChannels(pixels, k + 1)

computeEncodeStats(pixels, total) ==
    LET uniquePixels == lastByIndex(pixels, 1)
    IN [pixelsTotal |-> total,
        pixelsEncoded |-> Len(uniquePixels),
        pixelsModified |-> countModified(uniquePixels, 1),
        channelsModified |-> countChannels(uniquePixels, 1)]

\* encodedPixels.forEach(pixel => image.setPixelAt(pixel)), and the statistics
EncWritePixels ==
    /\ epc = "write"
    /\ channels' = setPixelsFrom(channels, encodedPixels, 1)
    /\ stats' = computeEncodeStats(encodedPixels, pixelCount)
    /\ reports' = report(98, 100, "Packaging key")
    /\ epc' = "package"
    /\ UNCHANGED <<file, isReady, width, height, isaac, key, aliasCount, msg_e, eErr,
                   effectiveAliasCount, targetCount, uniqueIndices, encodablePixels,
                   encodedPixels, currentPos, usedPositions, i, packagedKey, decVars>>
    /\ UNCHANGED <<decInVars, callVars>>

\* a packaging that stores the image index of the first chain pixel
EncPackageKeyByIndex ==
    /\ epc = "package"
    /\ packagedKey' = packageKey([key |-> key,
                                  aliasCount |-> effectiveAliasCount,
                                  firstPixelIndex |-> encodedPixels[Len(encodedPixels)].index,
                                  msgLength |-> Len(msg_e)])
    /\ reports' = report(1, 1, "Done")
    /\ epc' = "finish"
    /\ UNCHANGED <<imageVars, isaac, key, aliasCount, msg_e, eErr,
                   effectiveAliasCount, targetCount, uniqueIndices, encodablePixels,
                   encodedPixels, currentPos, usedPositions, i, stats, decVars>>
    /\ UNCHANGED <<decInVars, callVars>>

EncPackageKey ==
    /\ epc = "package"
    /\ packagedKey' = packageKey([key |-> key,
                                  aliasCount |-> effectiveAliasCount,
                                  firstPixelIndex |-> currentPos,
                                  msgLength |-> Len(msg_e)])
    /\ reports' = report(1, 1, "Done")
    /\ epc' = "finish"
    /\ UNCHANGED <<imageVars, isaac, key, aliasCount, msg_e, eErr,
                   effectiveAliasCount, targetCount, uniqueIndices, encodablePixels,
                   encodedPixels, currentPos, usedPositions, i, stats, decVars>>
    /\ UNCHANGED <<decInVars, callVars>>

\* image.encode() and the return of {key, image, stats}
EncReturn ==
    /\ epc = "finish"
    /\ epc' = "done"
    /\ UNCHANGED <<imageVars, isaac, key, aliasCount, msg_e, eErr,
                   effectiveAliasCount, targetCount, uniqueIndices, encodablePixels,
                   encodedPixels, currentPos, usedPositions, i, stats, packagedKey,
                   reports, decVars>>
    /\ UNCHANGED <<decInVars, callVars>>

(* ------------------------------- decoder ------------------------------- *)
\* Math.floor(DEFAULT_TOTAL_POINTERS / aliasCount); Infinity for aliasCount 0
Infinity == -3

pixelsCountOf(t) ==
    IF t = NaN THEN NaN
    ELSE IF t = 0 THEN Infinity
    ELSE DEFAULT_TOTAL_POINTERS \div t

\* uniqueIndices.size < this.encodingPixelsCount
sizeBelow(size, count) ==
    count = Infinity \/ (count # NaN /\ size < count)

\* array[index]: <<element>>, or <<>> for undefined
elementAt(s, index) ==
    IF index >= 0 /\ index < Len(s) THEN <<s[index + 1]>> ELSE <<>>

\* new StegDecoder(image, packed) on the image encode() wrote
StegDecoder(packed) ==
    /\ epc = "done"
    /\ dpc = "none"
    /\ dPacked' = packed
    /\ IF packedTooShort(packed)
       THEN /\ dpc' = "error" /\ dErr' = "Packed key is too short."
            /\ UNCHANGED <<dKey, dFirstPixelIndex, dAliasCount, dMsgLength,
                           encodingPixelsCount>>
       ELSE LET unpackagedKey == unpackageKey(packed)
            IN /\ dKey' = unpackagedKey.key
               /\ dFirstPixelIndex' = unpackagedKey.firstPixelIndex
               /\ dAliasCount' = unpackagedKey.aliasCount
               /\ dMsgLength' = unpackagedKey.msgLength
               /\ encodingPixelsCount' = pixelsCountOf(unpackagedKey.aliasCount)
               /\ dpc' = "new" /\ dErr' = dErr
    /\ UNCHANGED <<imageVars, isaac, encVars, dUniqueIndices, decodablePixels, dMsg,
                   dCurrent, dI>>
    /\ UNCHANGED <<dIsReady, callVars>>

\* the decoder is given the key encode() returned
DecConstruct == StegDecoder(packagedKey)

\* StegDecoder.prepare: the stego image is loaded
DecPrepare ==
    /\ dpc = "new"
    /\ IF isReady
       THEN dpc' = "ready" /\ dErr' = dErr
       ELSE dpc' = "error" /\ dErr' = "image has not been initialized yet."
    /\ UNCHANGED <<imageVars, isaac, encVars, dKey, dFirstPixelIndex, dAliasCount,
                   dMsgLength, encodingPixelsCount, dUniqueIndices, decodablePixels,
                   dMsg, dCurrent, dI>>
    /\ dIsReady' = isReady
    /\ UNCHANGED <<dPacked, callVars>>

DecSeed ==
    /\ dpc = "ready"
    /\ isaac' = reseed(isaac, keyToString(dKey))
    /\ dUniqueIndices' = <<>>
    /\ dpc' = "gather"
    /\ UNCHANGED <<imageVars, encVars, dErr, dKey, dFirstPixelIndex, dAliasCount,
                   dMsgLength, encodingPixelsCount, decodablePixels, dMsg, dCurrent,
                   dI>>
    /\ UNCHANGED <<decInVars, callVars>>

\* one iteration of while (uniqueIndices.size < this.encodingPixelsCount)
DecDraw ==
    /\ dpc = "gather"
    /\ sizeBelow(Len(dUniqueIndices), encodingPixelsCount)
    /\ isaac' = isaacNext(isaac)
    /\ dUniqueIndices' = setAdd(dUniqueIndices, randomIndex(isaac', pixelCount))
    /\ UNCHANGED <<imageVars, encVars, dpc, dErr, dKey, dFirstPixelIndex,
                   dAliasCount, dMsgLength, encodingPixelsCount, decodablePixels,
                   dMsg, dCurrent, dI>>
    /\ UNCHANGED <<decInVars, callVars>>

\* new Uint8Array(msgLength): NaN gives the empty array
zeros(len) == [k \in 1..(IF len = NaN THEN 0 ELSE len) |-> 0]

DecSelectPixels ==
    /\ dpc = "gather"
    /\ ~sizeBelow(Len(dUniqueIndices), encodingPixelsCount)
    /\ decodablePixels' = pixelsOf(channels, dUniqueIndices)
    /\ dMsg' = zeros(dMsgLength)
    /\ dCurrent' = elementAt(decodablePixels', dFirstPixelIndex)
    /\ dI' = 0
    /\ dpc' = "walk"
    /\ UNCHANGED <<imageVars, isaac, encVars, dErr, dKey, dFirstPixelIndex,
                   dAliasCount, dMsgLength, encodingPixelsCount, dUniqueIndices>>
    /\ UNCHANGED <<decInVars, callVars>>

\* the position the decoder moves to; x % 0 is NaN
nextPosition(K, px, S_len) ==
    IF S_len = 0 THEN NaN ELSE next_pixel_idx(K, px.pointer, S_len)

\* a walk that clears the R channel of each pixel it has read
DecStepClearing ==
    /\ dpc = "walk"
    /\ dI < dMsgLength
    /\ IF dCurrent = <<>>
       THEN /\ dpc' = "error" /\ dErr' = "TypeError"
            /\ UNCHANGED <<dMsg, dCurrent, dI, channels>>
       ELSE /\ dMsg' = [dMsg EXCEPT ![dI + 1] = dCurrent[1].bytes[RED]]
            /\ dCurrent' = elementAt(decodablePixels,
                                nextPosition(dKey, dCurrent[1], Len(decodablePixels)))
            /\ dI' = dI + 1
            /\ channels' = setPixelAt(channels, setChannel(dCurrent[1], RED, 0))
            /\ UNCHANGED <<dpc, dErr>>
    /\ UNCHANGED <<file, isReady, width, height, isaac, encVars, dKey, dFirstPixelIndex,
                   dAliasCount, dMsgLength, encodingPixelsCount, dUniqueIndices,
                   decodablePixels>>
    /\ UNCHANGED <<decInVars, callVars>>

\* one iteration of the walk: a TypeError if currentPixel is undefined
DecStep ==
    /\ dpc = "walk"
    /\ dI < dMsgLength
    /\ IF dCurrent = <<>>
       THEN /\ dpc' = "error" /\ dErr' = "TypeError"
            /\ UNCHANGED <<dMsg, dCurrent, dI>>
       ELSE /\ dMsg' = [dMsg EXCEPT ![dI + 1] = dCurrent[1].bytes[RED]]
            /\ dCurrent' = elementAt(decodablePixels,
                                nextPosition(dKey, dCurrent[1], Len(decodablePixels)))
            /\ dI' = dI + 1
            /\ UNCHANGED <<dpc, dErr>>
    /\ UNCHANGED <<imageVars, isaac, encVars, dKey, dFirstPixelIndex, dAliasCount,
                   dMsgLength, encodingPixelsCount, dUniqueIndices, decodablePixels>>
    /\ UNCHANGED <<decInVars, callVars>>

\* the walk is over: aes_decrypt of the extracted bytes is returned
DecReturn ==
    /\ dpc = "walk"
    /\ ~(dI < dMsgLength)
    /\ dpc' = "done"
    /\ UNCHANGED <<imageVars, isaac, encVars, dErr, dKey, dFirstPixelIndex,
                   dAliasCount, dMsgLength, encodingPixelsCount, dUniqueIndices,
                   decodablePixels, dMsg, dCurrent, dI>>
    /\ UNCHANGED <<decInVars, callVars>>

(* ---------------------------- specification ---------------------------- *)
Next ==
    \/ EncPrepare
    \/ EncSeed
    \/ EncDraw
    \/ EncSelectPixels
    \/ EncPreparePointers
    \/ EncLastPixel
    \/ EncStep
    \/ EncLoopExit
    \/ EncWritePixels
    \/ EncPackageKey
    \/ EncReturn
    \/ DecConstruct
    \/ DecPrepare
    \/ DecSeed
    \/ DecDraw
    \/ DecSelectPixels
    \/ DecStep
    \/ DecReturn

Spec == Init /\ [][Next]_vars

(* ------------- a second encode() on the same StegEncoder --------------- *)
\* encode() is called again on the instance whose first call has ended: key,
\* message and alias count are the instance's fields, and prepare() loads
\* the image only if it is not ready, so a grid the first call wrote stays
EncAgain ==
    /\ run = 1
    /\ epc \in {"done", "error"}
    /\ run' = 2
    /\ first' = [key |-> key, packagedKey |-> packagedKey, grid |-> channels]
    /\ IF isReady
       THEN /\ epc' = "encrypt"
            /\ reports' = <<[num |-> 5, den |-> 100, phase |-> "Encrypting message"]>>
       ELSE /\ epc' = "new"
            /\ reports' = <<>>
    /\ eErr' = ""
    /\ effectiveAliasCount' = 0 /\ targetCount' = 0
    /\ uniqueIndices' = <<>> /\ encodablePixels' = <<>> /\ encodedPixels' = <<>>
    /\ currentPos' = -1 /\ usedPositions' = <<>> /\ i' = -1
    /\ stats' = NoStats /\ packagedKey' = <<>>
    /\ UNCHANGED <<imageVars, isaac, key, aliasCount, msg_e, decVars, decInVars,
                   interfered, cancelAt, probe>>

\* the steps of encode() and the second call
NextAgain ==
    \/ EncPrepare
    \/ EncSeed
    \/ EncDraw
    \/ EncSelectPixels
    \/ EncPreparePointers
    \/ EncLastPixel
    \/ EncStep
    \/ EncLoopExit
    \/ EncWritePixels
    \/ EncPackageKey
    \/ EncReturn
    \/ EncAgain

SpecAgain == Init /\ [][NextAgain]_vars

(* ----------------- a decoder given another key string ------------------ *)
\* the key string with white space typed around it
paddedKeys(packed) ==
    {<<SPACE>> \o packed, packed \o <<SPACE>>, <<SPACE>> \o packed \o <<SPACE>>}

\* the key string cut short, also followed by white space
shortKeys(packed) ==
    {slice(packed, 0, n) : n \in {0, PackedMinLen - 1}}
        \cup {slice(packed, 0, PackedMinLen - 1) \o <<SPACE>>}

\* the key string without its pos0 field, with one digit of the pos0 field
\* changed, and with one more digit at its end
pos0Keys(packed) ==
    {slice(packed, 0, PackedMinLen)}
        \cup {[packed EXCEPT ![k] = d] :
                  k \in (PackedMinLen + 1)..Len(packed), d \in 0..(HexBase - 1)}
        \cup {packed \o <<d>> : d \in 0..(HexBase - 1)}

\* the decoder is given a variant of the key encode() returned
DecConstructGiven ==
    /\ epc = "done"
    /\ \E packed \in (paddedKeys(packagedKey) \cup shortKeys(packagedKey)
                         \cup pos0Keys(packagedKey)) \ {packagedKey} :
           StegDecoder(packed)

NextGiven ==
    \/ Next
    \/ DecConstructGiven

\* the inputs with a loadable cover and an alias count whose Q / t positions
\* fit the image
InitGiven ==
    /\ Init
    /\ file.loadable
    /\ Q \div aliasCount <= file.width * file.height

SpecGiven == InitGiven /\ [][NextGiven]_vars

(* ------------------ other calls using the shared PRNG ------------------ *)
\* an encode() that lets other calls run at any point
encAwaitsAlways == TRUE

\* encode() is suspended at an await (prepare, or one of the progress reports),
\* has not been called yet, or has ended; it is not between isaac.seed and the
\* report that follows the gathering of S, nor between the report before the
\* last pixel is chosen and the report of the first backward step
encAwaits ==
    \/ epc \in {"new", "encrypt", "pointers", "last", "write", "package", "finish",
                 "done", "error"}
    \/ epc = "chain" /\ Len(encodedPixels) >= 2

\* decode() is suspended at await this.prepare(), has not been called, or has
\* ended; after prepare() it runs to its end without an await
decAwaits == dpc \in {"none", "new", "ready", "done", "error"}

RECURSIVE drawn(_, _)
\* the generator state after d calls of isaac.random()
drawn(state, d) == IF d = 0 THEN state ELSE drawn(isaacNext(state), d - 1)

\* another encode() or decode(), of another instance with a key of its own,
\* runs from its isaac.seed to the end of its gathering loop, of one draw or
\* of MaxPixels draws, while the calls of the model are suspended
OtherCall ==
    /\ encAwaits
    /\ decAwaits
    /\ \E K \in Keys, d \in {1, MaxPixels} :
          isaac' = drawn(reseed(isaac, keyToString(K)), d)
    /\ interfered' = TRUE
    /\ UNCHANGED <<imageVars, encVars, decVars, decInVars, run, first, cancelAt, probe>>

NextShared ==
    \/ Next
    \/ OtherCall

\* the inputs with the first cover pattern and the first ciphertext pattern:
\* pixel values and ciphertext bytes play no part in seeding and gathering
InitShared ==
    /\ Init
    /\ file.data = coverOf(0, file.width * file.height)
    /\ msg_e = messageOf(0, Len(msg_e))

SpecShared == InitShared /\ [][NextShared]_vars

(* ---------------------- a caller that wants to cancel ------------------ *)
\* while encode() is suspended in a progress report the caller decides to
\* cancel; encode() takes no flag and its onProgress callback returns
\* normally, so the decision changes nothing encode() reads
RequestCancel ==
    /\ cancelAt = ""
    /\ encAwaits
    /\ epc \notin {"new", "done", "error"}
    /\ cancelAt' = epc
    /\ UNCHANGED <<imageVars, isaac, encVars, decVars, decInVars, run, first,
                   interfered, probe>>

\* the steps of encode() and the caller's decision
NextCancel ==
    \/ EncPrepare
    \/ EncSeed
    \/ EncDraw
    \/ EncSelectPixels
    \/ EncPreparePointers
    \/ EncLastPixel
    \/ EncStep
    \/ EncLoopExit
    \/ EncWritePixels
    \/ EncPackageKey
    \/ EncReturn
    \/ RequestCancel

SpecCancel == Init /\ [][NextCancel]_vars

(* ------------------- a second encode on the same inputs ----------------- *)
\* new StegEncoder(image, message, aliasCount) once more, on the same cover
\* file, ciphertext and alias count and with the same key K, after the first
\* encode() returned and no decode() is under way: the new instance and its
\* StegImage start as in Init, the module-level PRNG is as earlier calls left it
EncRestart ==
    /\ run = 1
    /\ epc = "done"
    /\ dpc \in {"none", "done", "error"}
    /\ run' = 2
    /\ first' = [S |-> uniqueIndices, chain |-> usedPositions, pixels |-> encodedPixels,
                 grid |-> channels, packagedKey |-> packagedKey, stats |-> stats,
                 reports |-> reports]
    /\ isReady' = FALSE /\ channels' = <<>> /\ width' = 0 /\ height' = 0
    /\ epc' = "new" /\ eErr' = ""
    /\ effectiveAliasCount' = 0 /\ targetCount' = 0
    /\ uniqueIndices' = <<>> /\ encodablePixels' = <<>> /\ encodedPixels' = <<>>
    /\ currentPos' = -1 /\ usedPositions' = <<>> /\ i' = -1
    /\ stats' = NoStats /\ packagedKey' = <<>> /\ reports' = <<>>
    /\ UNCHANGED <<file, isaac, key, aliasCount, msg_e, decVars, decInVars, interfered,
                   cancelAt, probe>>

\* the steps of encode() and the start of the second encoder
NextTwice ==
    \/ EncPrepare
    \/ EncSeed
    \/ EncDraw
    \/ EncSelectPixels
    \/ EncPreparePointers
    \/ EncLastPixel
    \/ EncStep
    \/ EncLoopExit
    \/ EncWritePixels
    \/ EncPackageKey
    \/ EncReturn
    \/ EncRestart

SpecTwice == Init /\ [][NextTwice]_vars

(* ------------------ a pointer written into a pixel --------------------- *)
\* a pixel of the loaded image is fetched and one of the Q pointers is
\* written into it with setPointer
ProbePointer ==
    /\ isReady
    /\ probe = <<>>
    /\ \E index \in 0..(pixelCount - 1), p \in 0..(DEFAULT_TOTAL_POINTERS - 1) :
          LET px == getPixelAt(channels, index)
          IN probe' = [p |-> p, before |-> px,
                       px |-> setPointer(px, allPointers[p + 1]),
                       redSet |-> FALSE, written |-> FALSE, reread |-> <<>>]
    /\ UNCHANGED <<imageVars, isaac, encVars, decVars, decInVars, run, first,
                   interfered, cancelAt>>

\* the R channel of that pixel is set
ProbeRed ==
    /\ probe # <<>>
    /\ ~probe.redSet
    /\ ~probe.written
    /\ \E b \in 0..(ByteRange - 1) :
          probe' = [probe EXCEPT !.px = setChannel(probe.px, RED, b), !.redSet = TRUE]
    /\ UNCHANGED <<imageVars, isaac, encVars, decVars, decInVars, run, first,
                   interfered, cancelAt>>

\* the pixel is written to the grid
ProbeWrite ==
    /\ probe # <<>>
    /\ ~probe.written
    /\ channels' = setPixelAt(channels, probe.px)
    /\ probe' = [probe EXCEPT !.written = TRUE]
    /\ UNCHANGED <<file, isReady, width, height, isaac, encVars, decVars, decInVars,
                   run, first, interfered, cancelAt>>

\* the pixel is fetched from the grid again, as the decoder fetches it
ProbeReread ==
    /\ probe # <<>>
    /\ probe.written
    /\ probe.reread = <<>>
    /\ probe' = [probe EXCEPT !.reread = <<getPixelAt(channels, probe.px.index)>>]
    /\ UNCHANGED <<imageVars, isaac, encVars, decVars, decInVars, run, first,
                   interfered, cancelAt>>

NextPointer ==
    \/ EncPrepare
    \/ ProbePointer
    \/ ProbeRed
    \/ ProbeWrite
    \/ ProbeReread

\* the loadable covers; key, alias count and message play no part
InitPointer ==
    /\ Init
    /\ file.loadable
    /\ key = 0
    /\ aliasCount = 1
    /\ msg_e = messageOf(0, 1)

SpecPointer == InitPointer /\ [][NextPointer]_vars

(* ------------------------- notions of the claims ----------------------- *)
TooLongError == "Message too long for this image"
InvariantError == "Invariant violated: bestPixel should have been selected"

L == Len(msg_e)

\* encode() is past the chain loop's start and has not thrown
InChain == epc \in {"chain", "write", "package", "finish", "done"}

\* the chain loop is over
ChainBuilt == epc \in {"write", "package", "finish", "done"}

\* the pixels of the chain are written to the grid
Written == epc \in {"package", "finish", "done"}

\* the position in S of the chain pixel that holds msg_e[n] (0-based n); the
\* chain is built backwards, so usedPositions lists pos_{L-1}, ..., pos_0
chainPos(n) == usedPositions[L - n]

\* the image index S[pos]
imageIndexAt(pos) == uniqueIndices[pos + 1]

\* the pixel of the grid at S[pos]
gridPixelAt(pos) == getPixelAt(channels, imageIndexAt(pos))

NoDuplicates(s) == \A a, b \in 1..Len(s) : a # b => s[a] # s[b]

\* the decoder's loop can never end: every index of the image is collected
\* and the loop still wants more
DecoderStuck ==
    /\ dpc = "gather"
    /\ Len(dUniqueIndices) = pixelCount
    /\ sizeBelow(Len(dUniqueIndices), encodingPixelsCount)

(* -------------------------------- claims ------------------------------- *)
\* C1 (as claimed): decoding the image encode() produced with the key encode()
\* produced reads back exactly the ciphertext: the decoder raises no error, never
\* enters a loop it cannot leave, and the bytes it returns are msg_e.
C1_RoundTrip ==
    epc = "done" =>
        /\ dpc # "error"
        /\ ~DecoderStuck
        /\ (dpc = "done" => dMsg = msg_e)

\* C2 (as claimed): the decoder's reconstruction of S stops once it holds
\* min(floor(Q / t), W*H) distinct indices, t being the alias count encode()
\* serialised, and the walk then finishes without an error.
C2_DecodeTerminates ==
    /\ (dpc = "gather"
          /\ Len(dUniqueIndices) >=
                Min(DEFAULT_TOTAL_POINTERS \div effectiveAliasCount, pixelCount))
         => ~sizeBelow(Len(dUniqueIndices), encodingPixelsCount)
    /\ dpc # "error"

\* C3 (as claimed): the decoder's S equals the encoder's S in length, element-wise
\* and in order: when the decoder holds as many indices as the encoder's S it has
\* the same sequence and its loop ends there, and the pixels it walks are those of
\* the encoder's S.
C3_PRNGAgreement ==
    /\ (dpc = "gather" /\ Len(dUniqueIndices) = Len(uniqueIndices))
         => (dUniqueIndices = uniqueIndices
             /\ ~sizeBelow(Len(dUniqueIndices), encodingPixelsCount))
    /\ dpc \in {"walk", "done"} => dUniqueIndices = uniqueIndices

\* C4: pointer relation.  After every backward step each committed pixel but
\* the last chain node carries a pointer that resolves to the position committed
\* just before it, and in the written image the (G, B) bytes of the pixel at
\* S[pos_n] resolve to pos_{n+1} for every n < L - 1.
C4_PointerRelation ==
    /\ InChain =>
          \A j \in 2..Len(encodedPixels) :
              next_pixel_idx(key, encodedPixels[j].pointer, Len(encodablePixels))
                  = usedPositions[j - 1]
    /\ Written =>
          \A n \in 0..(L - 2) :
              next_pixel_idx(key, gridPixelAt(chainPos(n)).pointer, Len(uniqueIndices))
                  = chainPos(n + 1)

\* C4 witness: a finished encode of at least three bytes in which a pointer was
\* written into a pixel
C4_Witness ==
    /\ epc = "done" /\ L >= 3
    /\ \E n \in 0..(L - 2) :
          gridPixelAt(chainPos(n)).pointer
              # StegPointer(file.data[imageIndexAt(chainPos(n)) + 1])

\* C5: exact payload.  In the written image the R channel of the pixel at
\* S[pos_n] equals msg_e[n] for every n in 0..L-1.
C5_ExactPayload ==
    Written =>
        \A n \in 0..(L - 1) : gridPixelAt(chainPos(n)).bytes[RED] = msg_e[n + 1]

\* C5 witness: a finished encode in which the R channel of a pixel chosen by a
\* backward step had to change
C5_Witness ==
    /\ epc = "done" /\ L >= 2
    /\ \E n \in 0..(L - 2) :
          file.data[imageIndexAt(chainPos(n)) + 1][RED] # msg_e[n + 1]

\* C6: chain positions are pairwise distinct.  The used set holds one position
\* per encoded byte, all different and all positions of S, and after the loop
\* the chain has L distinct positions and L distinct image indices.
C6_ChainDistinct ==
    /\ InChain =>
          /\ Len(usedPositions) = L - 1 - i
          /\ Len(encodedPixels) = Len(usedPositions)
          /\ NoDuplicates(usedPositions)
          /\ \A j \in 1..Len(usedPositions) :
                /\ usedPositions[j] \in 0..(Len(encodablePixels) - 1)
                /\ encodedPixels[j].index = imageIndexAt(usedPositions[j])
    /\ ChainBuilt =>
          /\ Len(usedPositions) = L
          /\ Cardinality({imageIndexAt(chainPos(n)) : n \in 0..(L - 1)}) = L

\* C6 witness: a finished encode whose chain uses every position of S
C6_Witness ==
    epc = "done" /\ L >= 3 /\ Len(usedPositions) = Len(encodablePixels)

\* C7 (as claimed): encode() throws the invariant-violated error only when no
\* unused position remains in S.
C7_ExhaustedOnly ==
    eErr = InvariantError => Len(usedPositions) = Len(encodablePixels)

\* the t field of a packaged key: chars [KeyHexLen, KeyHexLen + FIELD_HEX_LEN)
tFieldOf(packed) == parseInt(slice(packed, KeyHexLen, KeyHexLen + FIELD_HEX_LEN))

\* the L field of a packaged key
lenFieldOf(packed) == parseInt(slice(packed, KeyHexLen + FIELD_HEX_LEN, PackedMinLen))

\* C8 (as claimed): when floor(Q / t) < L <= W*H the encoder uses
\* t' = max(1, floor(Q / L)), |S| = min(floor(Q / t'), W*H) is at least L and the
\* key's t field is t'; when floor(Q / t) >= L the key's t field is the caller's t.
C8_AliasRenegotiation ==
    /\ (epc \in {"gather", "pointers", "last"} \cup {"chain", "write", "package", "finish", "done"}
          /\ DEFAULT_TOTAL_POINTERS \div aliasCount < L)
         => /\ effectiveAliasCount = Max(1, DEFAULT_TOTAL_POINTERS \div L)
            /\ targetCount =
                 Min(DEFAULT_TOTAL_POINTERS \div effectiveAliasCount, pixelCount)
            /\ targetCount >= L
    /\ epc \in {"finish", "done"} =>
          tFieldOf(packagedKey) =
              (IF DEFAULT_TOTAL_POINTERS \div aliasCount < L
               THEN Max(1, DEFAULT_TOTAL_POINTERS \div L)
               ELSE aliasCount)

\* C9: capacity.  encode() throws the message-too-long error exactly when
\* L > W*H on a loaded image, and then S is empty, no pixel is chosen, the grid
\* is the cover and no key exists.
C9_Capacity ==
    /\ eErr = TooLongError =>
          /\ L > pixelCount
          /\ epc = "error"
          /\ uniqueIndices = <<>> /\ encodablePixels = <<>> /\ encodedPixels = <<>>
          /\ usedPositions = <<>>
          /\ channels = file.data
          /\ packagedKey = <<>>
    /\ (isReady /\ epc # "encrypt" /\ L > pixelCount) => eErr = TooLongError

\* C9 witness: the capacity error on a message one byte longer than the image,
\* on an image of more than one pixel
C9_Witness ==
    eErr = TooLongError /\ L = pixelCount + 1 /\ pixelCount > 1

\* C10 (as claimed): unpackageKey(packageKey(K, t, L, pos0)) = (K, t, L, pos0) for
\* the key every successful encode() packages.
C10_KeyRoundTrip ==
    epc \in {"finish", "done"} =>
        unpackageKey(packagedKey) =
            [key |-> key, firstPixelIndex |-> currentPos,
             aliasCount |-> effectiveAliasCount, msgLength |-> L]

(* ------------------------------- C11 ----------------------------------- *)
\* the alpha byte of the working copy px still has the cover's value
alphaKept(px) == px.bytes[ALPHA] = file.data[px.index + 1][ALPHA]

\* C11: in every state of an encode run, finished, failed or under way, the
\* alpha channel of every pixel of the grid equals its value in the cover,
\* and so does the alpha byte of every working copy the encoder holds.
C11_AlphaUntouched ==
    /\ isReady => \A k \in 1..Len(channels) : channels[k][ALPHA] = file.data[k][ALPHA]
    /\ \A k \in 1..Len(encodablePixels) : alphaKept(encodablePixels[k])
    /\ \A k \in 1..Len(encodedPixels) : alphaKept(encodedPixels[k])

\* an encode has written a grid that differs from the cover in a pixel whose
\* alpha is not the maximum
C11_Witness ==
    /\ Written
    /\ \E k \in 1..Len(channels) :
          /\ channels[k] # file.data[k]
          /\ file.data[k][ALPHA] # ByteRange - 1

(* ------------------------------- C12 ----------------------------------- *)
IsPrefix(a, b) == Len(a) <= Len(b) /\ SubSeq(b, 1, Len(a)) = a

AfterStep == epc = "chain" /\ Len(encodedPixels) >= 2

\* the step just taken: its ciphertext byte, the chain position it had to
\* point to, the positions used before it, the position and pixel it committed
stepByte == msg_e[i + 2]
stepTarget == usedPositions[Len(usedPositions) - 1]
stepUsed == SubSeq(usedPositions, 1, Len(usedPositions) - 1)
committedPos == usedPositions[Len(usedPositions)]
committedPixel == encodedPixels[Len(encodedPixels)]
committedDistance == similarity(encodablePixels[committedPos + 1], committedPixel)

\* the pairs the step could choose from: an unused position of S and a pointer
\* that resolves to the next chain position
stepPositions == {pos \in 0..(Len(encodablePixels) - 1) : ~SeqHas(stepUsed, pos)}
stepPointers ==
    {p \in 0..(Q - 1) : Mac16(key, p) % Len(encodablePixels) = stepTarget}
\* squared RGBA distance between the cover pixel at pos and that pixel with
\* R set to the step's byte and the pointer set to p
pairDistance(pos, p) ==
    LET cover == encodablePixels[pos + 1].bytes
        dR == cover[RED] - stepByte
        dG == cover[GREEN] - (p \div ByteRange)
        dB == cover[BLUE] - (p % ByteRange)
    IN dR * dR + dG * dG + dB * dB

\* C13: at every backward step the committed pair is one of the pairs (unused
\* position of S, pointer resolving to the next chain position) and its distance
\* to the cover pixel is no larger than that of any such pair; so a pixel whose
\* R already equals the byte is not preferred over a closer one whose R differs.
C13_LocalOptimality ==
    AfterStep =>
        /\ committedPos \in stepPositions
        /\ pointerValue(committedPixel.pointer) \in stepPointers
        /\ committedDistance = pairDistance(committedPos,
                                            pointerValue(committedPixel.pointer))
        /\ \A pos \in stepPositions, p \in stepPointers :
              committedDistance <= pairDistance(pos, p)

\* a step committed a pixel whose cover R differs from the byte although an
\* unused position with exactly that R had a pointer to choose
C13_Witness ==
    /\ AfterStep
    /\ encodablePixels[committedPos + 1].bytes[RED] # stepByte
    /\ stepPointers # {}
    /\ \E pos \in stepPositions : encodablePixels[pos + 1].bytes[RED] = stepByte

\* |R - C[i]| of the cover pixel at pos for the step's byte
redGap(pos) == redDistance(encodablePixels[pos + 1], stepByte)

\* the order in which the loops of the step visit two pairs: candidates by
\* ascending |R - C[i]| (those with R = C[i] come first), candidates of equal
\* |R - C[i]| by position in S, the pointers of one candidate by value
visitedBefore(pos1, p1, pos2, p2) ==
    \/ redGap(pos1) < redGap(pos2)
    \/ redGap(pos1) = redGap(pos2) /\ pos1 < pos2
    \/ pos1 = pos2 /\ p1 < p2

\* the order with two buckets only: R = C[i] first, then by position in S,
\* then by pointer value
bucketOf(pos) == IF redGap(pos) = 0 THEN 0 ELSE 1
bucketBefore(pos1, p1, pos2, p2) ==
    \/ bucketOf(pos1) < bucketOf(pos2)
    \/ bucketOf(pos1) = bucketOf(pos2) /\ pos1 < pos2
    \/ pos1 = pos2 /\ p1 < p2

\* the pairs of the step, other than the committed one, that are as close to
\* their cover pixel as the committed one
tiedPairs ==
    {pair \in stepPositions \X stepPointers :
        /\ pair # <<committedPos, pointerValue(committedPixel.pointer)>>
        /\ pairDistance(pair[1], pair[2]) = committedDistance}

\* C14 as stated: among the pairs of equal minimal distance the committed one
\* comes first when positions with R = C[i] precede the others, each of the two
\* buckets is in S order, and the pointers of a position are in value order.
C14_BucketOrder ==
    AfterStep =>
        \A pair \in tiedPairs :
            bucketBefore(committedPos, pointerValue(committedPixel.pointer),
                         pair[1], pair[2])

\* C14: among the pairs of equal minimal distance the committed one is the
\* first the loops visit: positions by ascending |R - C[i]| (so R = C[i]
\* first), positions of equal |R - C[i]| in S order, and the pointers of one
\* position in value order.
C14_TieBreaking ==
    AfterStep =>
        \A pair \in tiedPairs :
            visitedBefore(committedPos, pointerValue(committedPixel.pointer),
                          pair[1], pair[2])

\* a step had a tie between the committed pair, whose R differs from the
\* byte, and a pair at an earlier position of S whose R is farther from it
C14_Witness ==
    /\ AfterStep
    /\ redGap(committedPos) > 0
    /\ \E pair \in tiedPairs :
          pair[1] < committedPos /\ redGap(pair[1]) > redGap(committedPos)

(* ------------------------------- C15 ----------------------------------- *)
\* the decoder was given a well-formed key of encode() whose pos0 field was
\* removed or altered
Pos0Altered ==
    /\ dpc # "none"
    /\ effectiveAliasCount < Q
    /\ dPacked \in pos0Keys(packagedKey) \ {packagedKey}

\* C15: a decoder given a key of full length whose pos0 field is empty or
\* names a position that is not in S either rejects the key or walks to a
\* (garbage) result: it never reads S outside [0, |S|) at the start of the walk
\* and never fails on a pixel that is not there.
C15_BadPos0Handled ==
    Pos0Altered =>
        /\ dErr # "TypeError"
        /\ decodablePixels # <<>> =>
               dFirstPixelIndex >= 0 /\ dFirstPixelIndex < Len(decodablePixels)

(* ------------------------------- C16 ----------------------------------- *)
\* the number of characters of s that are not white space
visibleLen(s) == Cardinality({k \in 1..Len(s) : s[k] # SPACE})

\* C16: a decoder given the key of encode() with white space around it holds
\* the same K, t, L and pos0 as one given the key itself, and a decoder given
\* a string with fewer than PackedMinLen characters other than the white space
\* around it fails at construction with the too-short error, before its image
\* is loaded and before any pixel is read.
C16_TrimmedParse ==
    /\ (dpc \notin {"none", "error"} /\ dPacked \in paddedKeys(packagedKey)) =>
          LET unpackagedKey == unpackageKey(packagedKey)
          IN /\ dKey = unpackagedKey.key
             /\ dAliasCount = unpackagedKey.aliasCount
             /\ dMsgLength = unpackagedKey.msgLength
             /\ dFirstPixelIndex = unpackagedKey.firstPixelIndex
    /\ (dpc # "none" /\ dPacked \in paddedKeys(packagedKey)) =>
          ~(dpc = "error" /\ dErr = "Packed key is too short.")
    /\ (dpc # "none" /\ visibleLen(dPacked) < PackedMinLen) =>
          /\ dpc = "error" /\ dErr = "Packed key is too short."
          /\ ~dIsReady
          /\ dUniqueIndices = <<>> /\ decodablePixels = <<>> /\ dMsg = <<>>

\* a decode with a key that has white space on both sides returned the
\* ciphertext
C16_Witness ==
    /\ dpc = "done"
    /\ dPacked = <<SPACE>> \o packagedKey \o <<SPACE>>
    /\ dMsg = msg_e

(* ------------------------------- C17 ----------------------------------- *)
\* C17: an encode that failed, at whatever point, returned no key and no
\* statistics and left every byte of the pixel grid equal to the cover (the
\* grid is still empty if the image never loaded); the grid is written only
\* when the whole chain has been chosen.
C17_FailedEncodeClean ==
    /\ epc = "error" =>
          /\ eErr # ""
          /\ packagedKey = <<>> /\ stats = NoStats
          /\ IF isReady THEN channels = file.data ELSE channels = <<>>
    /\ (isReady /\ channels # file.data) =>
          /\ Written
          /\ Len(encodedPixels) = L

\* the chain loop failed after the last pixel had been chosen and its working
\* copy given a new R value
C17_Witness ==
    /\ epc = "error" /\ eErr = InvariantError
    /\ encodedPixels # <<>>
    /\ modified(encodedPixels[1])

(* ------------------------------- C18 ----------------------------------- *)
RECURSIVE gatherAlone(_, _, _, _)
\* the Set a call gathers from the generator in the given state when nothing
\* else draws from it: indices below n until the Set holds count of them
gatherAlone(state, n, count, acc) ==
    IF Len(acc) >= count THEN acc
    ELSE LET next == isaacNext(state)
             added == setAdd(acc, randomIndex(next, n))
         IN gatherAlone(next, n, count, added)

\* C18: with other calls seeding and drawing from the module-level PRNG
\* whenever encode() and decode() are suspended, encode() gathers the S it
\* gathers alone (and is on its way to it while it draws), decode() gathers
\* the S it gathers alone, and a decode of a well-formed key still returns the
\* ciphertext.
C18_NoInterference ==
    /\ epc \notin {"new", "encrypt", "error"} =>
          LET alone == gatherAlone(isaacSeed(keyToString(key)), pixelCount,
                                   targetCount, <<>>)
          IN IF epc = "gather" THEN IsPrefix(uniqueIndices, alone)
             ELSE uniqueIndices = alone
    /\ dpc \in {"walk", "done"} =>
          dUniqueIndices = gatherAlone(isaacSeed(keyToString(dKey)), pixelCount,
                                       encodingPixelsCount, <<>>)
    /\ (dpc = "done" /\ effectiveAliasCount < Q) => dMsg = msg_e

\* a decode returned the ciphertext of a chain of several pixels after other
\* calls used the PRNG
C18_Witness ==
    /\ interfered
    /\ dpc = "done" /\ dMsg = msg_e /\ L > 1

(* ------------------------------- C19 ----------------------------------- *)
\* the place of a report's phase in the order of the phases
phaseRank(phase) ==
    CASE phase = "Encrypting message" -> 1
      [] phase = "Selecting pixels" -> 2
      [] phase = "Preparing pointers" -> 3
      [] phase = "Encoding bytes" -> 4
      [] phase = "Writing pixels to image" -> 5
      [] phase = "Packaging key" -> 6
      [] phase = "Done" -> 7
      [] OTHER -> 0

\* C19: the reports of an encode come in the order encrypt, select pixels,
\* prepare pointers, encode bytes, write pixels, package key, done, each phase
\* once except encode bytes; every fraction is in [0, 1] and none is smaller
\* than the one before; and a successful encode has sent the three opening
\* reports, exactly L - 1 reports of encode bytes, and the three closing
\* reports, the last with fraction 1.
C19_ProgressOrder ==
    /\ \A k \in 1..Len(reports) :
          /\ reports[k].den > 0
          /\ 0 <= reports[k].num /\ reports[k].num <= reports[k].den
    /\ \A k \in 1..(Len(reports) - 1) :
          /\ reports[k].num * reports[k + 1].den <= reports[k + 1].num * reports[k].den
          /\ \/ phaseRank(reports[k].phase) < phaseRank(reports[k + 1].phase)
             \/ /\ phaseRank(reports[k].phase) = 4
                /\ phaseRank(reports[k + 1].phase) = 4
    /\ epc \in {"finish", "done"} =>
          /\ Len(reports) = L + 5
          /\ \A k \in 1..3 : phaseRank(reports[k].phase) = k
          /\ \A k \in 4..(L + 2) : phaseRank(reports[k].phase) = 4
          /\ \A k \in 1..3 : phaseRank(reports[L + 2 + k].phase) = 4 + k
          /\ reports[L + 5].num = reports[L + 5].den

\* an encode of at least three bytes has returned and its reports of encode
\* bytes have different fractions
C19_Witness ==
    /\ epc = "done"
    /\ L >= 3
    /\ reports[4].num * reports[5].den < reports[5].num * reports[4].den

(* ------------------------------- C20 ----------------------------------- *)
\* the pixels of the grid whose R, G or B differs from the cover, and the
\* channel bytes of the grid that differ from the cover
changedPixels ==
    {k \in 1..Len(channels) :
        \E c \in {RED, GREEN, BLUE} : channels[k][c] # file.data[k][c]}
changedChannels ==
    {kc \in (1..Len(channels)) \X (1..STEG_CHANNEL_COUNT) :
        channels[kc[1]][kc[2]] # file.data[kc[1]][kc[2]]}

\* C20: the statistics of a successful encode describe the change made to
\* the grid: pixelsTotal is W * H, pixelsEncoded is L, pixelsModified is the
\* number of pixels whose R, G or B differs between cover and written grid,
\* channelsModified the number of differing channel bytes; and
\* pixelsModified <= pixelsEncoded, channelsModified <= 3 * pixelsModified.
C20_StatsMatch ==
    Written =>
        /\ stats.pixelsTotal = file.width * file.height
        /\ stats.pixelsEncoded = L
        /\ stats.pixelsModified = Cardinality(changedPixels)
        /\ stats.channelsModified = Cardinality(changedChannels)
        /\ stats.pixelsModified <= stats.pixelsEncoded
        /\ stats.channelsModified <= 3 * stats.pixelsModified

\* an encode wrote a grid in which some chain pixel kept all its bytes, some
\* pixel changed only outside R, and some pixel changed in several channels
C20_Witness ==
    /\ Written
    /\ stats.pixelsModified < stats.pixelsEncoded
    /\ stats.pixelsModified < stats.channelsModified
    /\ \E k \in changedPixels : channels[k][RED] = file.data[k][RED]

(* ------------------------------- C21 ----------------------------------- *)
RECURSIVE ceilLog(_, _)
\* the least e >= from with HexBase^e >= n
ceilLog(n, from) == IF HexBase ^ from >= n THEN from ELSE ceilLog(n, from + 1)

RECURSIVE hexDigits(_)
\* the number of hex digits of n written without padding
hexDigits(n) == IF n < HexBase THEN 1 ELSE 1 + hexDigits(n \div HexBase)

\* encode() has built the key string it returns
KeyPackaged == epc \in {"finish", "done"}

\* C21 as stated: the key string is PackedMinLen + ceil(log(W * H))
\* characters long.
C21_KeyLength ==
    KeyPackaged => Len(packagedKey) = PackedMinLen + ceilLog(pixelCount, 0)

\* C21: the key string is as long as its four fields: KeyHexLen digits for
\* K, the digits of t' and of L each padded to FIELD_HEX_LEN (longer when the
\* value has more digits), and the digits of pos0 without padding, at least
\* one and no more than the largest position of S has.
C21_KeyLengthByDigits ==
    KeyPackaged =>
        /\ Len(packagedKey) = KeyHexLen
                               + Max(FIELD_HEX_LEN, hexDigits(effectiveAliasCount))
                               + Max(FIELD_HEX_LEN, hexDigits(L))
                               + hexDigits(currentPos)
        /\ hexDigits(currentPos) <= hexDigits(Len(encodablePixels) - 1)

\* a key string shorter than PackedMinLen + ceil(log(W * H)) was returned
\* for an image of several pixels
C21_Witness ==
    /\ epc = "done"
    /\ pixelCount > HexBase
    /\ effectiveAliasCount < Q
    /\ Len(packagedKey) < PackedMinLen + ceilLog(pixelCount, 0)

(* ------------------------------- C22 ----------------------------------- *)
\* the value of the pos0 field of the key string encode() built: the digits
\* after the K, t and L fields as they were written
writtenPos0 ==
    parseInt(SubSeq(packagedKey,
                    KeyHexLen + Max(FIELD_HEX_LEN, hexDigits(effectiveAliasCount))
                        + Max(FIELD_HEX_LEN, hexDigits(L)) + 1,
                    Len(packagedKey)))

\* C22: the pos0 in the key string is a position of S, below |S|: the one
\* committed last (by the last backward step, or by the last-pixel phase when
\* L = 1); the pixel of S at that position is the chain pixel chosen for C[0]
\* and holds C[0] in R in the written grid.
C22_Pos0IsPosition ==
    KeyPackaged =>
        /\ writtenPos0 >= 0 /\ writtenPos0 < Len(uniqueIndices)
        /\ writtenPos0 = usedPositions[Len(usedPositions)]
        /\ Len(usedPositions) = L
        /\ imageIndexAt(writtenPos0) = encodedPixels[L].index
        /\ gridPixelAt(writtenPos0).bytes[RED] = msg_e[1]

\* a key was returned whose pos0, the position committed by a backward step,
\* differs from the image index of the pixel at that position
C22_Witness ==
    /\ epc = "done"
    /\ L >= 2
    /\ writtenPos0 # imageIndexAt(writtenPos0)

(* ------------------------------- C23 ----------------------------------- *)
\* C23: an encode() call works with a master key that the earlier call on
\* the same StegEncoder did not use.
C23_FreshKey ==
    (run = 2 /\ epc # "new") => key # first.key

(* ------------------------------- C24 ----------------------------------- *)
\* C24: once the caller has asked to cancel at a report that precedes the
\* writing of the pixels, encode() does not go on to write the grid and to
\* return a key: it ends with a cancelled error at that report.
C24_CancelStops ==
    cancelAt \in {"encrypt", "pointers", "last", "chain", "write"} =>
        /\ ~Written
        /\ packagedKey = <<>>
        /\ epc = cancelAt \/ (epc = "error" /\ eErr = "Cancelled")

\* ---------------------------------------------------------------------------
\* C25: while encode builds S, S holds pairwise distinct pixel indices in
\* [0, W*H), kept in the order they were first drawn (the pixels fetched from
\* S follow that order), and once S is complete
\* |S| = min(floor(Q / t'), W*H) >= L.
Gathered == epc \in {"pointers", "last", "chain", "write", "package", "finish", "done"}

coverAt(pos) == getPixelAt(file.data, uniqueIndices[pos + 1])
lastGap(pos) == Abs(coverAt(pos).bytes[RED] - msg_e[L])
LastChosen == epc \in {"chain", "write", "package", "finish", "done"}

C26_LastNode ==
    LastChosen =>
        LET last == encodedPixels[1]
            pos == usedPositions[1]
        IN /\ pos >= 0 /\ pos < Len(uniqueIndices)
           /\ last.index = uniqueIndices[pos + 1]
           /\ \A k \in 0..(Len(uniqueIndices) - 1) : lastGap(k) >= lastGap(pos)
           /\ \A k \in 0..(pos - 1) : lastGap(k) > lastGap(pos)
           /\ last.bytes = [coverAt(pos).bytes EXCEPT ![RED] = msg_e[L]]
           /\ encodablePixels[pos + 1] = last
           /\ Written => channels[last.index + 1] = last.bytes

C26_Witness ==
    /\ epc = "done"
    /\ usedPositions[1] > 0
    /\ lastGap(usedPositions[1]) > 0
    /\ \E k \in (usedPositions[1] + 1)..(Len(uniqueIndices) - 1) :
           lastGap(k) = lastGap(usedPositions[1])
    /\ channels[encodedPixels[1].index + 1] # file.data[encodedPixels[1].index + 1]

\* ---------------------------------------------------------------------------
\* C27: at a backward step, if some unused position of S has R equal to the
\* step's byte and a (G,B) pointer that already resolves to the next chain
\* position, the step commits the first such position in S order, with
\* distortion 0, and that pixel's four bytes in the stego image equal the
\* cover's.
\* the n-th chain node (n >= 2) was committed for byte C[L - n], had to point
\* to the position of node n - 1, and could not use the positions of nodes 1..n-1
nodeByte(n) == msg_e[L - n + 1]
nodeTarget(n) == usedPositions[n - 1]
perfectPositions(n) ==
    {pos \in 0..(Len(encodablePixels) - 1) :
        /\ \A m \in 1..(n - 1) : usedPositions[m] # pos
        /\ encodablePixels[pos + 1].bytes[RED] = nodeByte(n)
        /\ next_pixel_idx(key, encodablePixels[pos + 1].pointer,
                          Len(encodablePixels)) = nodeTarget(n)}

C27_PerfectMatch ==
    LastChosen =>
        \A n \in 2..Len(encodedPixels) :
            perfectPositions(n) # {} =>
                /\ usedPositions[n] \in perfectPositions(n)
                /\ \A pos \in perfectPositions(n) : usedPositions[n] <= pos
                /\ similarity(encodablePixels[usedPositions[n] + 1], encodedPixels[n]) = 0
                /\ encodedPixels[n].bytes = file.data[encodedPixels[n].index + 1]
                /\ Written => channels[encodedPixels[n].index + 1]
                                  = file.data[encodedPixels[n].index + 1]

\* a finished encode with a step that had two perfect positions to choose
\* from and committed the first, leaving that image pixel as the cover has it
C27_Witness ==
    /\ epc = "done"
    /\ \E n \in 2..Len(encodedPixels) :
          /\ Cardinality(perfectPositions(n)) >= 2
          /\ usedPositions[n] \in perfectPositions(n)
          /\ channels[encodedPixels[n].index + 1] = file.data[encodedPixels[n].index + 1]

\* ---------------------------------------------------------------------------
\* C28: after a successful encode every image pixel whose index is not one of
\* the L chain pixels has all four bytes equal to the cover's, so at most L
\* pixels differ from the cover; and while the chain is built, the values a
\* step reads for an unused position of S are the cover values of that pixel
\* (the grid itself is still the cover's until the chain is written).
chainIndices == {encodedPixels[n].index : n \in 1..Len(encodedPixels)}
differingPixels == {k \in 1..Len(channels) : channels[k] # file.data[k]}
unusedPositions ==
    {pos \in 0..(Len(encodablePixels) - 1) : ~SeqHas(usedPositions, pos)}

C28_OnlyChainPixelsChange ==
    /\ Written =>
          /\ \A k \in 1..Len(channels) :
                 (k - 1) \notin chainIndices => channels[k] = file.data[k]
          /\ Cardinality(chainIndices) = L
          /\ Cardinality(differingPixels) <= L
    /\ LastChosen =>
          \A pos \in unusedPositions :
              /\ encodablePixels[pos + 1].index = uniqueIndices[pos + 1]
              /\ encodablePixels[pos + 1].bytes = file.data[uniqueIndices[pos + 1] + 1]
    /\ (Gathered /\ ~Written) => channels = file.data

\* a finished encode that changed some pixel, left a chain pixel as the cover
\* has it, and had pixels of S that no step used
C28_Witness ==
    /\ epc = "done"
    /\ differingPixels # {}
    /\ Cardinality(differingPixels) < L
    /\ L < pixelCount
    /\ unusedPositions # {}

\* ---------------------------------------------------------------------------
\* C29: decode never modifies the pixel grid: no step of the decoder, from
\* its construction to its return or its error, changes a byte of the grid
\* or its dimensions; and no such step changes the cover file or anything
\* the encoder holds (the decoder reads the grid and its key string only).
DecoderActs == decVars' # decVars \/ decInVars' # decInVars

C29_DecodeKeepsGrid ==
    [][DecoderActs =>
          /\ channels' = channels
          /\ width' = width /\ height' = height
          /\ file' = file
          /\ encVars' = encVars]_vars

\* a decode that walked a chain of at least two pixels of a grid the encoder
\* had changed, and returned the ciphertext
C29_Witness ==
    /\ dpc = "done"
    /\ dMsg = msg_e
    /\ L >= 2
    /\ channels # file.data

\* ---------------------------------------------------------------------------
\* C30: for every p in [0, Q), writing p into a pixel stores its high byte in
\* G and its low byte in B and leaves R and A as they were; the pixel's
\* pointer read afterwards is p, also once R has been set, and also when the
\* pixel has been written to the grid and fetched from it again.
C30_PointerRoundTrip ==
    probe # <<>> =>
        /\ probe.px.bytes[GREEN] = probe.p \div ByteRange
        /\ probe.px.bytes[BLUE] = probe.p % ByteRange
        /\ probe.px.bytes[ALPHA] = probe.before.bytes[ALPHA]
        /\ ~probe.redSet => probe.px.bytes[RED] = probe.before.bytes[RED]
        /\ pointerValue(probe.px.pointer) = probe.p
        /\ probe.reread # <<>> =>
              /\ probe.reread[1].bytes = probe.px.bytes
              /\ pointerValue(probe.reread[1].pointer) = probe.p

\* a pointer with different high and low bytes, other than the pixel's own,
\* was written, R was changed, and the pixel went through the grid
C30_Witness ==
    /\ probe # <<>>
    /\ probe.p \div ByteRange # probe.p % ByteRange
    /\ pointerValue(probe.before.pointer) # probe.p
    /\ probe.redSet
    /\ probe.px.bytes[RED] # probe.before.bytes[RED]
    /\ probe.reread # <<>>


==============================================================================
